---- MODULE Spec2Model ----
(***************************************************************************)
(* cdk-learning-samples: the two serverless samples as state machines.     *)
(*                                                                         *)
(*  - samples/03-file-upload-system: the object stores (upload bucket and  *)
(*    processed bucket), the event-driven file processor                   *)
(*    (lambda/file_processor.py), one step per object-store call, and the  *)
(*    status query of the upload API (lambda/api_handler.py).              *)
(*  - samples/02-simple-api-server: the item table and the CRUD handlers   *)
(*    (lambda/api_handler.py), one step per table call.                    *)
(*                                                                         *)
(* An object key "p1/.../pn/uploads/{file_id}/{stem}{ext}" is the record   *)
(* [pre |-> <<p1,...,pn>>, fid |-> file_id, stem |-> stem, ext |-> ext]:   *)
(* every key of the system is an upload key with "processed/" and          *)
(* "quarantine/" prefixes put in front of it by the processor.             *)
(***************************************************************************)
EXTENDS Integers, Sequences, FiniteSets, TLC

VARIABLES
    s3,       \* bucket -> (key -> object): the two object stores
    events,   \* the storage notifications emitted so far (delivered at least once)
    proc,     \* the file processor's invocation: position and locals
    handled,  \* how many notification records the processor has taken up so far
    resp,     \* the response the upload API is handing back, if any
    table,    \* id -> item: the item table of the CRUD sample
    issued,   \* the item identifiers uuid4 has produced so far
    now,      \* the wall clock (the last value datetime.now() returned)
    pending,  \* update/delete requests between their existence check and their write
    http      \* the last response of the CRUD API

fileVars == <<s3, events, proc, handled, resp>>
itemVars == <<table, issued, now, pending, http>>
vars == <<s3, events, proc, handled, resp, table, issued, now, pending, http>>

-----------------------------------------------------------------------------
(* Bounds of the model *)

\* number of file identifiers (each upload request gets a fresh one)
MaxFiles == 1
\* number of notification records the processor handles in one behaviour
MaxRecords == 2
\* most records in one event batch handed to the processor
MaxBatch == 1
\* number of item identifiers (each create gets a fresh one)
MaxItems == 2
\* last reading of the clock
MaxClock == 3
\* most update/delete requests between their existence check and their write
MaxInFlight == 2
\* most pieces of a file name
MaxNameLen == 2

-----------------------------------------------------------------------------
(* Configuration: file_processor.py lines 23-28 *)

UPLOAD_BUCKET == "upload-bucket"
PROCESSED_BUCKET == "processed-bucket"
Buckets == {UPLOAD_BUCKET, PROCESSED_BUCKET}
MAX_FILE_SIZE_MB == 10
ALLOWED_FILE_TYPES == {".jpg", ".png", ".pdf"}
ENABLE_IMAGE_RESIZE == TRUE

MaxSizeBytes == MAX_FILE_SIZE_MB * 1024 * 1024

-----------------------------------------------------------------------------
(* Keys, objects and the object store *)

FileIds == 1..MaxFiles

\* str.lower() on the extensions of the model
Lower(ext) ==
    CASE ext = ".PNG" -> ".png"
      [] ext = ".PDF" -> ".pdf"
      [] ext = ".JPG" -> ".jpg"
      [] ext = ".EXE" -> ".exe"
      [] OTHER -> ext

\* os.path.splitext(object_key)[1]: the extension of the last path component
SplitExt(key) == key.ext

\* f"uploads/{file_id}/{filename}"
UploadKey(fid, stem, ext) == [pre |-> <<>>, fid |-> fid, stem |-> stem, ext |-> ext]

\* the processed key without its prefix (C3 tells the two apart)
ProcessedKey_same_key(key) == key

\* f"processed/{object_key}"
ProcessedKey(key) == [key EXCEPT !.pre = <<"processed">> \o @]

\* f"quarantine/{object_key}"
QuarantineKey(key) == [key EXCEPT !.pre = <<"quarantine">> \o @]

NoKey == [pre |-> <<>>, fid |-> 0, stem |-> "", ext |-> ""]
NoObj == [body |-> "", ctype |-> "", size |-> -1, meta |-> [none |-> TRUE]]

NoResp == [op |-> "none"]

EmptyStore == [k \in {} |-> NoObj]
Has(b, key) == key \in DOMAIN s3[b]
Put(store, b, key, obj) ==
    [store EXCEPT ![b] =
        [k \in DOMAIN @ \cup {key} |-> IF k = key THEN obj ELSE @[k]]]
Del(store, b, key) ==
    [store EXCEPT ![b] = [k \in DOMAIN @ \ {key} |-> @[k]]]

\* the notification S3 emits for a write or a delete
Event(name, b, key) ==
    [eventSource |-> "aws:s3", eventName |-> name, bucket |-> b, key |-> key]

\* what a client may upload: filename, content type, size, content
Uploads ==
    { [stem |-> "a", ext |-> ".pdf", ctype |-> "application/pdf",
       size |-> MaxSizeBytes, body |-> "bytes-1"],
      [stem |-> "b", ext |-> ".PNG", ctype |-> "image/png",
       size |-> 1, body |-> "bytes-2"],
      [stem |-> "c", ext |-> ".exe", ctype |-> "application/octet-stream",
       size |-> 1, body |-> "bytes-1"],
      [stem |-> "d", ext |-> ".jpg", ctype |-> "image/jpeg",
       size |-> MaxSizeBytes + 1, body |-> "bytes-2"] }

\* messages of the failures a store call can raise
NoSuchKey == "NoSuchKey"
ServiceError == "ServiceError"

-----------------------------------------------------------------------------
(* The file processor: lambda/file_processor.py *)

Idle ==
    [pc |-> "idle", recs |-> <<>>, bucket |-> "", key |-> NoKey,
     reason |-> <<>>, inExcept |-> FALSE, verdict |-> "none", path |-> "none",
     fin |-> "none", fault |-> FALSE, at |-> "none", src |-> NoObj, got |-> NoObj]

\* validate_file
\* validate_file without its size check (C2 tells the two apart)
validate_file_any_size(object_key, file_size, content_type) ==
    Lower(SplitExt(object_key)) \in ALLOWED_FILE_TYPES

\* validate_file comparing the extension as written (C15 tells the two apart)
validate_file_case_sensitive(object_key, file_size, content_type) ==
    /\ file_size <= MAX_FILE_SIZE_MB * 1024 * 1024
    /\ SplitExt(object_key) \in ALLOWED_FILE_TYPES

validate_file(object_key, file_size, content_type) ==
    LET max_size_bytes == MAX_FILE_SIZE_MB * 1024 * 1024
        file_extension == Lower(SplitExt(object_key))
    IN  IF file_size > max_size_bytes THEN FALSE
        ELSE IF file_extension \notin ALLOWED_FILE_TYPES THEN FALSE
        ELSE TRUE

\* content_type.startswith('image/')
IsImage(content_type) == content_type \in {"image/png", "image/jpeg"}

ValidationFailed == <<"Validation failed">>
ProcessingError(msg) == <<"Processing error: ", msg>>

\* str(uuid.uuid4()): an identifier no earlier request was given
FreshFileId ==
    IF \A fid \in FileIds : \E e \in events : e.key.fid = fid THEN 0
    ELSE CHOOSE fid \in FileIds :
           /\ \A e \in events : e.key.fid # fid
           /\ \A other \in FileIds :
                 (\A e \in events : e.key.fid # other) => fid <= other

\* a client PUT through a signed URL: the object lands under uploads/{file_id}/
Upload(fid, u) ==
    LET key == UploadKey(fid, u.stem, u.ext)
        obj == [body |-> u.body, ctype |-> u.ctype, size |-> u.size,
                meta |-> [file_id |-> fid, original_filename |-> <<u.stem, u.ext>>]]
    IN  /\ resp = NoResp
        /\ fid = FreshFileId
        /\ s3' = Put(s3, UPLOAD_BUCKET, key, obj)
        /\ events' = events \cup {Event("ObjectCreated:Put", UPLOAD_BUCKET, key)}
        /\ UNCHANGED <<proc, handled, resp, itemVars>>
\* the platform invokes lambda_handler with a batch of notifications; a
\* notification may be delivered again at any later time
Batches == UNION { [1..n -> events] : n \in 1..MaxBatch }
lambda_handler(batch) ==
    /\ proc.pc = "idle"
    /\ resp = NoResp
    /\ handled + Len(batch) <= MaxRecords
    /\ proc' = [Idle EXCEPT !.pc = "loop", !.recs = batch]
    /\ handled' = handled + Len(batch)
    /\ UNCHANGED <<s3, events, resp, itemVars>>
\* the loop of lambda_handler and process_s3_event: the next record, or the
\* handler's return once the batch is done
process_s3_event ==
    /\ proc.pc = "loop"
    /\ resp = NoResp
    /\ IF proc.recs = <<>>
         THEN proc' = Idle
         ELSE LET record == Head(proc.recs)
                  next == [Idle EXCEPT !.recs = Tail(proc.recs)]
              IN  proc' =
                    IF record.eventSource = "aws:s3"
                       /\ record.eventName \in {"ObjectCreated:Put", "ObjectCreated:Copy"}
                      THEN [next EXCEPT !.pc = "head", !.bucket = record.bucket,
                                        !.key = record.key]
                      ELSE [next EXCEPT !.pc = "loop"]
    /\ UNCHANGED <<s3, events, handled, resp, itemVars>>

\* an exception inside the try block that nothing catches (C5 tells the two
\* apart)
Caught_rethrown(p, msg) ==
    [p EXCEPT !.pc = "raised", !.fin = "raised", !.at = p.pc]

\* an exception inside the try block of process_uploaded_file: the except
\* branch calls move_to_quarantine with the message
Caught(p, msg) ==
    [p EXCEPT !.pc = "q_copy", !.reason = ProcessingError(msg), !.inExcept = TRUE,
              !.at = p.pc]

\* an exception raised by move_to_quarantine: inside the try block it is
\* caught like any other, inside the except branch it leaves the function
Raised(p, msg) ==
    IF p.inExcept THEN [p EXCEPT !.pc = "raised", !.fin = "raised", !.at = p.pc]
    ELSE Caught(p, msg)

\* copy_object with MetadataDirective='REPLACE': the content is copied, the
\* metadata is the caller's, and the content type, which the caller does not
\* give, falls back to the store's default
CopyObject(store, srcBucket, srcKey, dstBucket, dstKey, metadata) ==
    LET o == store[srcBucket][srcKey]
    IN  Put(store, dstBucket, dstKey,
            [body |-> o.body, ctype |-> "binary/octet-stream", size |-> o.size,
             meta |-> metadata])

ProcessedMetadata(object_key) ==
    [original_key |-> object_key, processed_by |-> "file-upload-system",
     processing_status |-> "completed"]

QuarantineMetadata(object_key, reason) ==
    [quarantine_reason |-> reason, original_key |-> object_key,
     quarantined_by |-> "file-upload-system"]

\* delete_object: deleting a key that is absent succeeds and emits nothing
DeleteEvents(b, key) ==
    IF Has(b, key) THEN {Event("ObjectRemoved:Delete", b, key)} ELSE {}

\* process_uploaded_file up to its first call into a move: head_object,
\* validate_file and the dispatch on the content type
process_uploaded_file(ok) ==
    /\ proc.pc = "head"
    /\ resp = NoResp
    /\ IF ~ok \/ ~Has(proc.bucket, proc.key)
         THEN proc' = Caught([proc EXCEPT !.fault = TRUE],
                             IF ok THEN "Not Found" ELSE ServiceError)
         ELSE LET response == s3[proc.bucket][proc.key]
                  file_size == response.size
                  content_type == response.ctype
                  p == [proc EXCEPT !.src = response]
              IN  proc' =
                    IF ~validate_file(proc.key, file_size, content_type)
                      THEN [p EXCEPT !.pc = "q_copy", !.reason = ValidationFailed,
                                     !.verdict = "invalid", !.path = "quarantine"]
                    ELSE IF IsImage(content_type) /\ ENABLE_IMAGE_RESIZE
                      THEN [p EXCEPT !.pc = "img_get", !.verdict = "valid",
                                     !.path = "image"]
                    ELSE [p EXCEPT !.pc = "mv_copy", !.verdict = "valid",
                                   !.path = "pass-through"]
    /\ UNCHANGED <<s3, events, handled, resp, itemVars>>
\* process_image: get_object
process_image_get(ok) ==
    /\ proc.pc = "img_get"
    /\ resp = NoResp
    /\ IF ~ok \/ ~Has(proc.bucket, proc.key)
         THEN proc' = Caught([proc EXCEPT !.fault = TRUE],
                             IF ok THEN NoSuchKey ELSE ServiceError)
         ELSE proc' = [proc EXCEPT !.pc = "img_put", !.got = s3[proc.bucket][proc.key]]
    /\ UNCHANGED <<s3, events, handled, resp, itemVars>>
\* process_image: put_object of the downloaded bytes into the processed bucket
process_image_put(ok) ==
    /\ proc.pc = "img_put"
    /\ resp = NoResp
    /\ IF ~ok
         THEN /\ proc' = Caught([proc EXCEPT !.fault = TRUE], ServiceError)
              /\ UNCHANGED <<s3, events>>
         ELSE LET processed_key == ProcessedKey(proc.key)
              IN  /\ s3' = Put(s3, PROCESSED_BUCKET, processed_key,
                                [body |-> proc.got.body, ctype |-> proc.got.ctype,
                                 size |-> proc.got.size,
                                 meta |-> ProcessedMetadata(proc.key)])
                  /\ events' = events \cup
                        {Event("ObjectCreated:Put", PROCESSED_BUCKET, processed_key)}
                  /\ proc' = [proc EXCEPT !.pc = "img_del"]
    /\ UNCHANGED <<handled, resp, itemVars>>
\* process_image: delete_object of the source
process_image_delete(ok) ==
    /\ proc.pc = "img_del"
    /\ resp = NoResp
    /\ IF ~ok
         THEN /\ proc' = Caught([proc EXCEPT !.fault = TRUE], ServiceError)
              /\ UNCHANGED <<s3, events>>
         ELSE /\ s3' = Del(s3, proc.bucket, proc.key)
              /\ events' = events \cup DeleteEvents(proc.bucket, proc.key)
              /\ proc' = [proc EXCEPT !.pc = "loop", !.fin = "returned"]
    /\ UNCHANGED <<handled, resp, itemVars>>
\* move_to_processed: copy_object into the processed bucket
move_to_processed_copy(ok) ==
    /\ proc.pc = "mv_copy"
    /\ resp = NoResp
    /\ IF ~ok \/ ~Has(proc.bucket, proc.key)
         THEN /\ proc' = Caught([proc EXCEPT !.fault = TRUE],
                                IF ok THEN NoSuchKey ELSE ServiceError)
              /\ UNCHANGED <<s3, events>>
         ELSE LET processed_key == ProcessedKey(proc.key)
              IN  /\ s3' = CopyObject(s3, proc.bucket, proc.key, PROCESSED_BUCKET,
                                       processed_key, ProcessedMetadata(proc.key))
                  /\ events' = events \cup
                        {Event("ObjectCreated:Copy", PROCESSED_BUCKET, processed_key)}
                  /\ proc' = [proc EXCEPT !.pc = "mv_del"]
    /\ UNCHANGED <<handled, resp, itemVars>>
\* move_to_processed: delete_object of the source
move_to_processed_delete(ok) ==
    /\ proc.pc = "mv_del"
    /\ resp = NoResp
    /\ IF ~ok
         THEN /\ proc' = Caught([proc EXCEPT !.fault = TRUE], ServiceError)
              /\ UNCHANGED <<s3, events>>
         ELSE /\ s3' = Del(s3, proc.bucket, proc.key)
              /\ events' = events \cup DeleteEvents(proc.bucket, proc.key)
              /\ proc' = [proc EXCEPT !.pc = "loop", !.fin = "returned"]
    /\ UNCHANGED <<handled, resp, itemVars>>
\* move_to_quarantine's copy_object writing an empty quarantine object when the
\* source key is missing instead of raising (C17 tells the two apart)
move_to_quarantine_copy_of_missing(ok) ==
    /\ proc.pc = "q_copy"
    /\ resp = NoResp
    /\ IF ~ok
         THEN /\ proc' = Raised([proc EXCEPT !.fault = TRUE], ServiceError)
              /\ UNCHANGED <<s3, events>>
         ELSE LET quarantine_key == QuarantineKey(proc.key)
                  o == IF Has(proc.bucket, proc.key)
                         THEN s3[proc.bucket][proc.key]
                         ELSE [NoObj EXCEPT !.size = 0]
              IN  /\ s3' = Put(s3, proc.bucket, quarantine_key,
                               [o EXCEPT !.ctype = "binary/octet-stream",
                                         !.meta = QuarantineMetadata(proc.key,
                                                                     proc.reason)])
                  /\ events' = events \cup
                        {Event("ObjectCreated:Copy", proc.bucket, quarantine_key)}
                  /\ proc' = [proc EXCEPT !.pc = "q_del"]
    /\ UNCHANGED <<handled, resp, itemVars>>

\* move_to_quarantine: copy_object under quarantine/ in the same bucket
move_to_quarantine_copy(ok) ==
    /\ proc.pc = "q_copy"
    /\ resp = NoResp
    /\ IF ~ok \/ ~Has(proc.bucket, proc.key)
         THEN /\ proc' = Raised([proc EXCEPT !.fault = TRUE],
                                IF ok THEN NoSuchKey ELSE ServiceError)
              /\ UNCHANGED <<s3, events>>
         ELSE LET quarantine_key == QuarantineKey(proc.key)
              IN  /\ s3' = CopyObject(s3, proc.bucket, proc.key, proc.bucket,
                                       quarantine_key,
                                       QuarantineMetadata(proc.key, proc.reason))
                  /\ events' = events \cup
                        {Event("ObjectCreated:Copy", proc.bucket, quarantine_key)}
                  /\ proc' = [proc EXCEPT !.pc = "q_del"]
    /\ UNCHANGED <<handled, resp, itemVars>>
\* move_to_quarantine: delete_object of the source
move_to_quarantine_delete(ok) ==
    /\ proc.pc = "q_del"
    /\ resp = NoResp
    /\ IF ~ok
         THEN /\ proc' = Raised([proc EXCEPT !.fault = TRUE], ServiceError)
              /\ UNCHANGED <<s3, events>>
         ELSE /\ s3' = Del(s3, proc.bucket, proc.key)
              /\ events' = events \cup DeleteEvents(proc.bucket, proc.key)
              /\ proc' = [proc EXCEPT !.pc = "loop", !.fin = "returned"]
    /\ UNCHANGED <<handled, resp, itemVars>>
\* lambda_handler's except branch: the exception is logged and raised again,
\* the rest of the batch is not processed
lambda_handler_raise ==
    /\ proc.pc = "raised"
    /\ resp = NoResp
    /\ proc' = Idle
    /\ UNCHANGED <<s3, events, handled, resp, itemVars>>
-----------------------------------------------------------------------------
(* The upload API's status query: 03-file-upload-system/lambda/api_handler.py *)

\* the three areas an uploaded object can be in
InIncoming(fid) ==
    \E key \in DOMAIN s3[UPLOAD_BUCKET] : key.pre = <<>> /\ key.fid = fid
InProcessed(fid) ==
    \E key \in DOMAIN s3[PROCESSED_BUCKET] : key.pre = <<"processed">> /\ key.fid = fid
InQuarantine(fid) ==
    \E key \in DOMAIN s3[UPLOAD_BUCKET] : key.pre = <<"quarantine">> /\ key.fid = fid

\* list_objects_v2(Bucket, Prefix): the keys that start with the prefix
\* "p1/.../pn/uploads/{file_id}/"
ListObjectsV2(b, prefix, file_id) ==
    { key \in DOMAIN s3[b] : key.pre = prefix /\ key.fid = file_id }

\* the status decided from the incoming listing first (C6 tells the two apart)
ProcessingStatus_upload_first(upload_objects, processed_objects) ==
    IF upload_objects # {} THEN "processing"
    ELSE IF processed_objects # {} THEN "completed"
    ELSE "not_found"

\* get_processing_status: the status from the two listings
ProcessingStatus(upload_objects, processed_objects) ==
    IF processed_objects # {} THEN "completed"
    ELSE IF upload_objects # {} THEN "processing"
    ELSE "not_found"

get_processing_status(file_id, ok) ==
    /\ resp = NoResp
    /\ resp' =
         IF file_id = 0
           THEN [op |-> "status", code |-> 400]
         ELSE IF ~ok
           THEN [op |-> "status", code |-> 500]
         ELSE LET upload_objects == ListObjectsV2(UPLOAD_BUCKET, <<>>, file_id)
                  processed_objects ==
                      ListObjectsV2(PROCESSED_BUCKET, <<"processed">>, file_id)
              IN  [op |-> "status", file_id |-> file_id, code |-> 200,
                   status |-> ProcessingStatus(upload_objects, processed_objects)]
    /\ UNCHANGED <<s3, events, proc, handled, itemVars>>
\* the response goes back to the caller
api_return ==
    /\ resp # NoResp
    /\ resp' = NoResp
    /\ UNCHANGED <<s3, events, proc, handled, itemVars>>

-----------------------------------------------------------------------------
(* Specification of the file-upload sample *)

InitFiles ==
    /\ s3 = [b \in Buckets |-> EmptyStore]
    /\ events = {}
    /\ proc = Idle
    /\ handled = 0
    /\ resp = NoResp

InitItems ==
    /\ table = [k \in {} |-> 0]
    /\ issued = {}
    /\ now = 0
    /\ pending = {}
    /\ http = [op |-> "none"]

Init == InitFiles /\ InitItems

\* uploads, notifications and the steps of the processor
NextProcessor ==
    \/ \E fid \in FileIds, u \in Uploads : Upload(fid, u)
    \/ \E batch \in Batches : lambda_handler(batch)
    \/ process_s3_event
    \/ \E ok \in BOOLEAN : process_uploaded_file(ok)
    \/ \E ok \in BOOLEAN : process_image_get(ok)
    \/ \E ok \in BOOLEAN : process_image_put(ok)
    \/ \E ok \in BOOLEAN : process_image_delete(ok)
    \/ \E ok \in BOOLEAN : move_to_processed_copy(ok)
    \/ \E ok \in BOOLEAN : move_to_processed_delete(ok)
    \/ \E ok \in BOOLEAN : move_to_quarantine_copy(ok)
    \/ \E ok \in BOOLEAN : move_to_quarantine_delete(ok)
    \/ lambda_handler_raise

NextFiles ==
    \/ NextProcessor
    \/ \E file_id \in FileIds \cup {0}, ok \in BOOLEAN :
          get_processing_status(file_id, ok)
    \/ api_return

SpecFiles == Init /\ [][NextFiles]_vars

-----------------------------------------------------------------------------
(* The item store: 02-simple-api-server/lambda/api_handler.py *)

ItemIds == 1..MaxItems
EmptyBody == [k \in {} |-> 0]
NoHttp == [op |-> "none"]

\* the request bodies a caller sends: a JSON object, or none
Bodies ==
    { EmptyBody,
      [note |-> "x"],
      [name |-> "n"],
      [id |-> 1, created_at |-> 0, note |-> "x"],
      [updated_at |-> 0] }

\* the limit query parameter as the caller writes it
LimitParams == {"abc", "-1", "0", "1", "2"}
NoLimit == "none"

\* dict operations
Merge(f, g) ==
    [k \in DOMAIN f \cup DOMAIN g |-> IF k \in DOMAIN g THEN g[k] ELSE f[k]]
Restrict(f, keys) == [k \in DOMAIN f \cap keys |-> f[k]]

\* format_datetime: the timestamp rendered for display
format_datetime(iso_string) == <<"display", iso_string>>

\* format_item
format_item(item) ==
    LET with_created ==
            IF "created_at" \in DOMAIN item
              THEN Merge(item, [created_at_display |-> format_datetime(item.created_at)])
              ELSE item
    IN  IF "updated_at" \in DOMAIN with_created
          THEN Merge(with_created,
                     [updated_at_display |-> format_datetime(with_created.updated_at)])
          ELSE with_created

\* str(uuid.uuid4()): an identifier that was not produced before
FreshItemId ==
    IF ItemIds \subseteq issued THEN 0
    ELSE CHOOSE id \in ItemIds \ issued : \A other \in ItemIds \ issued : id <= other

\* int(query_params['limit']); ValueError for text that is no integer
IsInt(text) == text \in {"-1", "0", "1", "2"}
ParseInt(text) ==
    CASE text = "-1" -> -1
      [] text = "0" -> 0
      [] text = "1" -> 1
      [] text = "2" -> 2

\* the keys create_item does not take from the body
CreateProtected == {"id", "created_at", "updated_at"}
\* the keys update_item does not take from the body
UpdateProtected == {"id", "created_at"}

\* attribute names DynamoDB refuses in an expression unless they are given
\* through ExpressionAttributeNames
ReservedWords == {"name", "status"}

\* get_all_items
get_all_items(limit_param, ok) ==
    /\ http = NoHttp
    /\ IF limit_param # NoLimit /\ ~IsInt(limit_param)
         THEN http' = [op |-> "list", limit |-> limit_param, code |-> 400,
                       fault |-> FALSE]
         ELSE LET limit == IF limit_param = NoLimit THEN 0 ELSE ParseInt(limit_param)
                  scan_limited == limit # 0
              IN  IF ~ok \/ (scan_limited /\ limit < 1)
                    THEN http' = [op |-> "list", limit |-> limit_param, code |-> 500,
                                  fault |-> ~ok]
                    ELSE \E page \in SUBSET DOMAIN table :
                           /\ IF scan_limited /\ limit < Cardinality(DOMAIN table)
                                THEN Cardinality(page) = limit
                                ELSE page = DOMAIN table
                           /\ http' = [op |-> "list", limit |-> limit_param,
                                       code |-> 200, fault |-> FALSE,
                                       items |-> {format_item(table[id]) : id \in page},
                                       count |-> Cardinality(page)]
    /\ UNCHANGED <<table, issued, now, pending, fileVars>>

\* get_item answering an absent identifier like a failed lookup (C8 tells the
\* two apart)
get_item_absent_fails(item_id, ok) ==
    /\ http = NoHttp
    /\ http' =
         IF ~ok \/ item_id \notin DOMAIN table
           THEN [op |-> "get", id |-> item_id, code |-> 500, fault |-> ~ok,
                 absent |-> item_id \notin DOMAIN table]
         ELSE [op |-> "get", id |-> item_id, code |-> 200, fault |-> FALSE,
               absent |-> FALSE, item |-> format_item(table[item_id])]
    /\ UNCHANGED <<table, issued, now, pending, fileVars>>

\* get_item
get_item(item_id, ok) ==
    /\ http = NoHttp
    /\ http' =
         IF ~ok
           THEN [op |-> "get", id |-> item_id, code |-> 500, fault |-> TRUE,
                 absent |-> item_id \notin DOMAIN table]
         ELSE IF item_id \notin DOMAIN table
           THEN [op |-> "get", id |-> item_id, code |-> 404, fault |-> FALSE,
                 absent |-> TRUE]
         ELSE [op |-> "get", id |-> item_id, code |-> 200, fault |-> FALSE,
               absent |-> FALSE, item |-> format_item(table[item_id])]
    /\ UNCHANGED <<table, issued, now, pending, fileVars>>

\* the item create_item would build if it took every key from the body (C9
\* tells the two apart)
NewItem_body_wins(item_id, current_time, body) ==
    Merge([id |-> item_id,
           name |-> "Untitled",
           description |-> "",
           category |-> "general",
           created_at |-> current_time,
           updated_at |-> current_time,
           status |-> "active"],
          body)

\* the item create_item builds from the body
NewItem(item_id, current_time, body) ==
    Merge([id |-> item_id,
           name |-> IF "name" \in DOMAIN body THEN body.name ELSE "Untitled",
           description |-> "",
           category |-> "general",
           created_at |-> current_time,
           updated_at |-> current_time,
           status |-> "active"],
          Restrict(body, DOMAIN body \ CreateProtected))

\* create_item
create_item(body, ok) ==
    /\ http = NoHttp
    /\ IF body = EmptyBody
         THEN /\ http' = [op |-> "create", body |-> body, code |-> 400, fault |-> FALSE,
                          before |-> table, issued |-> issued]
              /\ UNCHANGED <<table, issued, now>>
         ELSE LET item_id == FreshItemId
                  current_time == now + 1
                  item == NewItem(item_id, current_time, body)
              IN  /\ item_id # 0
                  /\ now < MaxClock
                  /\ issued' = issued \cup {item_id}
                  /\ now' = current_time
                  /\ IF ~ok
                       THEN /\ http' = [op |-> "create", body |-> body, code |-> 500,
                                        fault |-> TRUE, before |-> table,
                                        issued |-> issued]
                            /\ UNCHANGED table
                       ELSE /\ table' = Merge(table, [k \in {item.id} |-> item])
                            /\ http' = [op |-> "create", body |-> body, code |-> 201,
                                        fault |-> FALSE, before |-> table,
                                        issued |-> issued, item |-> format_item(item)]
    /\ UNCHANGED <<pending, fileVars>>

\* update_item up to its write: the body check and the existence check.
\* Of the body these checks read only whether it is empty, so a request in
\* flight is recorded by its operation and identifier; the write takes the
\* (non-empty) body.
update_item_check(item_id, body, ok) ==
    /\ http = NoHttp
    /\ IF body = EmptyBody
         THEN /\ http' = [op |-> "update", id |-> item_id, body |-> body, code |-> 400,
                          fault |-> FALSE, absent |-> item_id \notin DOMAIN table]
              /\ UNCHANGED pending
         ELSE IF ~ok
           THEN /\ http' = [op |-> "update", id |-> item_id, body |-> body, code |-> 500,
                            fault |-> TRUE, absent |-> item_id \notin DOMAIN table]
                /\ UNCHANGED pending
         ELSE IF item_id \notin DOMAIN table
           THEN /\ http' = [op |-> "update", id |-> item_id, body |-> body, code |-> 404,
                            fault |-> FALSE, absent |-> TRUE]
                /\ UNCHANGED pending
         ELSE /\ Cardinality(pending) < MaxInFlight
              /\ pending' = pending \cup {[op |-> "update", id |-> item_id]}
              /\ UNCHANGED http
    /\ UNCHANGED <<table, issued, now, fileVars>>

\* the UpdateExpression update_item builds: "SET updated_at = :updated_at"
\* followed by ", {key} = :{key}" for each key it takes from the body
UpdatePaths(body) ==
    <<"updated_at">> \o
    LET keys == DOMAIN body \ UpdateProtected
        Order[S \in SUBSET keys] ==
            IF S = {} THEN <<>>
            ELSE LET k == CHOOSE x \in S : TRUE IN <<k>> \o Order[S \ {k}]
    IN  Order[keys]

\* DynamoDB refuses an expression that sets a path twice or names a reserved word
ExpressionValid(paths) ==
    /\ \A i, j \in 1..Len(paths) : i # j => paths[i] # paths[j]
    /\ \A i \in 1..Len(paths) : paths[i] \notin ReservedWords

\* the attributes table.update_item leaves stored under the key; the call
\* creates the item when the key is absent
UpdatedAttributes(old, current_time, body) ==
    Merge(old, Merge([updated_at |-> current_time],
                     Restrict(body, DOMAIN body \ UpdateProtected)))

\* update_item's write: table.update_item with ReturnValues='ALL_NEW'
update_item_write(item_id, body, ok) ==
    /\ http = NoHttp
    /\ [op |-> "update", id |-> item_id] \in pending
    /\ body # EmptyBody
    /\ now < MaxClock
    /\ LET current_time == now + 1
           stored == item_id \in DOMAIN table
           old == IF stored THEN table[item_id] ELSE [id |-> item_id]
           attributes == UpdatedAttributes(old, current_time, body)
       IN  /\ now' = current_time
           /\ IF ~ok \/ ~ExpressionValid(UpdatePaths(body))
                THEN /\ http' = [op |-> "update", id |-> item_id, body |-> body,
                                 code |-> 500, fault |-> ~ok, absent |-> FALSE,
                                 stored |-> stored, old |-> old]
                     /\ UNCHANGED table
                ELSE /\ table' = Merge(table, [k \in {item_id} |-> attributes])
                     /\ http' = [op |-> "update", id |-> item_id, body |-> body,
                                 code |-> 200, fault |-> FALSE, absent |-> FALSE,
                                 stored |-> stored, old |-> old,
                                 item |-> format_item(attributes)]
    /\ pending' = pending \ {[op |-> "update", id |-> item_id]}
    /\ UNCHANGED <<issued, fileVars>>

\* delete_item up to its write: the existence check
delete_item_check(item_id, ok) ==
    /\ http = NoHttp
    /\ IF ~ok
         THEN /\ http' = [op |-> "delete", id |-> item_id, code |-> 500, fault |-> TRUE,
                          absent |-> item_id \notin DOMAIN table]
              /\ UNCHANGED pending
         ELSE IF item_id \notin DOMAIN table
           THEN /\ http' = [op |-> "delete", id |-> item_id, code |-> 404,
                            fault |-> FALSE, absent |-> TRUE]
                /\ UNCHANGED pending
         ELSE /\ Cardinality(pending) < MaxInFlight
              /\ pending' = pending \cup {[op |-> "delete", id |-> item_id]}
              /\ UNCHANGED http
    /\ UNCHANGED <<table, issued, now, fileVars>>

\* delete_item's write: table.delete_item
delete_item_write(item_id, ok) ==
    /\ http = NoHttp
    /\ [op |-> "delete", id |-> item_id] \in pending
    /\ pending' = pending \ {[op |-> "delete", id |-> item_id]}
    /\ IF ~ok
         THEN /\ http' = [op |-> "delete", id |-> item_id, code |-> 500, fault |-> TRUE,
                          absent |-> FALSE]
              /\ UNCHANGED table
         ELSE /\ table' = Restrict(table, DOMAIN table \ {item_id})
              /\ http' = [op |-> "delete", id |-> item_id, code |-> 200,
                          fault |-> FALSE, absent |-> FALSE, deleted_id |-> item_id]
    /\ UNCHANGED <<issued, now, fileVars>>

\* the response goes back to the caller
http_return ==
    /\ http # NoHttp
    /\ http' = NoHttp
    /\ UNCHANGED <<table, issued, now, pending, fileVars>>

NextItems ==
    \/ \E limit_param \in LimitParams \cup {NoLimit}, ok \in BOOLEAN :
          get_all_items(limit_param, ok)
    \/ \E item_id \in ItemIds, ok \in BOOLEAN : get_item(item_id, ok)
    \/ \E body \in Bodies, ok \in BOOLEAN : create_item(body, ok)
    \/ \E item_id \in ItemIds, body \in Bodies, ok \in BOOLEAN :
          update_item_check(item_id, body, ok)
    \/ \E item_id \in ItemIds, body \in Bodies, ok \in BOOLEAN :
          update_item_write(item_id, body, ok)
    \/ \E item_id \in ItemIds, ok \in BOOLEAN : delete_item_check(item_id, ok)
    \/ \E item_id \in ItemIds, ok \in BOOLEAN : delete_item_write(item_id, ok)
    \/ http_return

SpecItems == Init /\ [][NextItems]_vars

-----------------------------------------------------------------------------
(* The upload API's request_upload: 03-file-upload-system/lambda/api_handler.py *)

\* A file name is a sequence of pieces of text: "/" is the path separator,
\* "." a lone dot, a piece like ".jpg" a dot followed by letters, "a" letters.
NameTokens == {"a", "/", ".", ".jpg", ".PNG", ".exe"}
Filenames == UNION { [1..n -> NameTokens] : n \in 0..MaxNameLen }

\* the pieces that begin with a dot
HasDot == {".", ".jpg", ".PNG", ".exe", ".pdf", ".png"}

\* str.rfind: the last position of a piece that is one of the given, 0 if none
LastIndex(p, pieces) ==
    LET found == { i \in 1..Len(p) : p[i] \in pieces }
    IN  IF found = {} THEN 0 ELSE CHOOSE i \in found : \A j \in found : j <= i
IsSep == {"/"}

\* os.path.splitext(p): <<root, extension>>; the extension starts at the last
\* dot of the last path component, unless only dots precede it there
splitext(p) ==
    LET sepIndex == LastIndex(p, IsSep)
        dotIndex == LastIndex(p, HasDot)
    IN  IF /\ dotIndex > sepIndex
           /\ \E filenameIndex \in (sepIndex + 1)..(dotIndex - 1) : p[filenameIndex] # "."
          THEN <<SubSeq(p, 1, dotIndex - 1), SubSeq(p, dotIndex, Len(p))>>
          ELSE <<p, <<>>>>

\* the text of a sequence of pieces
RECURSIVE Join(_)
Join(p) == IF p = <<>> THEN "" ELSE Head(p) \o Join(Tail(p))

\* str.lower, piece by piece
LowerTokens(p) == [i \in 1..Len(p) |-> Lower(p[i])]

\* validate_upload_request refusing a size equal to the maximum (C11 tells the
\* two apart)
validate_upload_request_below_max(filename, file_size) ==
    /\ Join(LowerTokens(splitext(filename)[2])) \in ALLOWED_FILE_TYPES
    /\ file_size < MAX_FILE_SIZE_MB * 1024 * 1024

\* validate_upload_request
validate_upload_request(filename, file_size) ==
    LET file_extension == Join(LowerTokens(splitext(filename)[2]))
        max_size_bytes == MAX_FILE_SIZE_MB * 1024 * 1024
    IN  IF file_extension \notin ALLOWED_FILE_TYPES THEN FALSE
        ELSE IF file_size > max_size_bytes THEN FALSE
        ELSE TRUE

\* f"uploads/{file_id}/{filename}" as text
UploadPath(file_id, filename) == <<"uploads", "/", ToString(file_id), "/">> \o filename

\* the key record of the path "uploads/{file_id}/{filename}"
ObjectKey(file_id, filename) ==
    LET parts == splitext(UploadPath(file_id, filename))
    IN  [pre |-> <<>>, fid |-> file_id,
         stem |-> Join(SubSeq(parts[1], 5, Len(parts[1]))),
         ext |-> Join(parts[2])]

\* ExpiresIn of the upload URL, in seconds
UPLOAD_EXPIRES_IN == 900

\* the declared sizes a caller sends
DeclaredSizes == {-1, 0, MaxSizeBytes, MaxSizeBytes + 1}

\* the JSON bodies of POST /upload: none, or an object with or without the
\* keys filename and file_size
UploadBodies ==
    {EmptyBody}
    \cup { [file_size |-> n] : n \in DeclaredSizes }
    \cup { [filename |-> f] : f \in Filenames }
    \cup { [filename |-> f, file_size |-> n] : f \in Filenames, n \in DeclaredSizes }

\* get_upload_url; ok: generate_presigned_url does not raise
get_upload_url(body, ok) ==
    LET filename == IF "filename" \in DOMAIN body THEN body.filename ELSE <<>>
        file_size == IF "file_size" \in DOMAIN body THEN body.file_size ELSE 0
        file_id == FreshFileId
        asked == [op |-> "upload_url", filename |-> filename, file_size |-> file_size]
    IN  /\ resp = NoResp
        /\ IF body = EmptyBody
             THEN resp' = Merge(asked, [code |-> 400, error |-> "Request body required"])
           ELSE IF filename = <<>>
             THEN resp' = Merge(asked, [code |-> 400, error |-> "filename is required"])
           ELSE IF ~validate_upload_request(filename, file_size)
             THEN resp' = Merge(asked, [code |-> 400, error |-> "Invalid file"])
           ELSE /\ file_id # 0
                /\ IF ~ok
                     THEN resp' = Merge(asked, [code |-> 500,
                                                error |-> "Failed to generate upload URL"])
                     ELSE resp' = Merge(asked,
                                        [code |-> 200, file_id |-> file_id,
                                         file_key |-> UploadPath(file_id, filename),
                                         expires_in |-> UPLOAD_EXPIRES_IN])
        /\ UNCHANGED <<s3, events, proc, handled, itemVars>>

NextUpload ==
    \/ \E body \in UploadBodies, ok \in BOOLEAN : get_upload_url(body, ok)
    \/ \E fid \in FileIds, u \in Uploads : Upload(fid, u)
    \/ api_return

SpecUpload == Init /\ [][NextUpload]_vars

-----------------------------------------------------------------------------
(* The upload API's file registry: 03-file-upload-system/lambda/api_handler.py *)

\* ExpiresIn of the download URL, in seconds
DOWNLOAD_EXPIRES_IN == 3600

\* delete_object for each of the keys
DelAll(store, b, keys) ==
    [store EXCEPT ![b] = [k \in DOMAIN @ \ keys |-> @[k]]]

\* the entries delete_file appends to deleted_files for one area
Deleted(area, keys) == { <<area, key>> : key \in keys }

\* list_files; ok: the listings do not raise
list_files(ok) ==
    /\ resp = NoResp
    /\ resp' =
         IF ~ok
           THEN [op |-> "list_files", code |-> 500, fault |-> TRUE]
         ELSE LET uploaded == { key \in DOMAIN s3[UPLOAD_BUCKET] : key.pre = <<>> }
                  processed == { key \in DOMAIN s3[PROCESSED_BUCKET] :
                                   key.pre # <<>> /\ Head(key.pre) = "processed" }
                  files == { [key |-> key, size |-> s3[UPLOAD_BUCKET][key].size,
                              status |-> "uploaded", bucket |-> "upload"] :
                             key \in uploaded }
                           \cup
                           { [key |-> key, size |-> s3[PROCESSED_BUCKET][key].size,
                              status |-> "processed", bucket |-> "processed"] :
                             key \in processed }
              IN  [op |-> "list_files", code |-> 200, fault |-> FALSE,
                   files |-> files, count |-> Cardinality(files)]
    /\ UNCHANGED <<s3, events, proc, handled, itemVars>>

\* the answer get_file_info builds from a listed object and its head_object
FileInfo(file_id, b, key, status, bucket) ==
    [op |-> "file_info", code |-> 200, file_id |-> file_id, key |-> key,
     size |-> s3[b][key].size, content_type |-> s3[b][key].ctype,
     metadata |-> s3[b][key].meta, status |-> status, bucket |-> bucket]

\* get_file_info; ok_upload, ok_processed: the store calls for that area do
\* not raise (what they raise is passed over)
get_file_info(file_id, ok_upload, ok_processed) ==
    /\ resp = NoResp
    /\ LET upload_objects ==
               IF ok_upload THEN ListObjectsV2(UPLOAD_BUCKET, <<>>, file_id) ELSE {}
           processed_objects ==
               IF ok_processed
                 THEN ListObjectsV2(PROCESSED_BUCKET, <<"processed">>, file_id)
                 ELSE {}
           asked == [fault |-> ~ok_upload \/ (upload_objects = {} /\ ~ok_processed)]
       IN  IF file_id = 0
             THEN resp' = [op |-> "file_info", code |-> 400]
           ELSE IF upload_objects # {}
             THEN \E key \in upload_objects :
                    resp' = Merge(FileInfo(file_id, UPLOAD_BUCKET, key,
                                           "uploaded", "upload"), asked)
           ELSE IF processed_objects # {}
             THEN \E key \in processed_objects :
                    resp' = Merge(FileInfo(file_id, PROCESSED_BUCKET, key,
                                           "processed", "processed"), asked)
           ELSE resp' = Merge([op |-> "file_info", code |-> 404, file_id |-> file_id],
                              asked)
    /\ UNCHANGED <<s3, events, proc, handled, itemVars>>

\* get_download_url looking into the upload bucket (C13 tells the two apart)
get_download_url_of_upload(file_id, ok_list, ok_sign) ==
    /\ resp = NoResp
    /\ LET objects == ListObjectsV2(UPLOAD_BUCKET, <<>>, file_id)
       IN  IF file_id = 0
             THEN resp' = [op |-> "download_url", code |-> 400]
           ELSE IF ~ok_list \/ ~ok_sign
             THEN resp' = [op |-> "download_url", code |-> 500, file_id |-> file_id,
                           fault |-> TRUE]
           ELSE IF objects = {}
             THEN resp' = [op |-> "download_url", code |-> 404, file_id |-> file_id,
                           fault |-> FALSE]
           ELSE \E file_key \in objects :
                  resp' = [op |-> "download_url", code |-> 200, file_id |-> file_id,
                           fault |-> FALSE, file_key |-> file_key,
                           expires_in |-> DOWNLOAD_EXPIRES_IN]
    /\ UNCHANGED <<s3, events, proc, handled, itemVars>>

\* get_download_url; ok_list: list_objects_v2 does not raise; ok_sign:
\* generate_presigned_url does not raise
get_download_url(file_id, ok_list, ok_sign) ==
    /\ resp = NoResp
    /\ LET objects == ListObjectsV2(PROCESSED_BUCKET, <<"processed">>, file_id)
       IN  IF file_id = 0
             THEN resp' = [op |-> "download_url", code |-> 400]
           ELSE IF ~ok_list
             THEN resp' = [op |-> "download_url", code |-> 500, file_id |-> file_id,
                           fault |-> TRUE]
           ELSE IF objects = {}
             THEN resp' = [op |-> "download_url", code |-> 404, file_id |-> file_id,
                           fault |-> FALSE]
           ELSE IF ~ok_sign
             THEN resp' = [op |-> "download_url", code |-> 500, file_id |-> file_id,
                           fault |-> TRUE]
           ELSE \E file_key \in objects :
                  resp' = [op |-> "download_url", code |-> 200, file_id |-> file_id,
                           fault |-> FALSE, file_key |-> file_key,
                           expires_in |-> DOWNLOAD_EXPIRES_IN]
    /\ UNCHANGED <<s3, events, proc, handled, itemVars>>

\* delete_file; ok_upload, ok_processed: the store calls for that area do not
\* raise (what they raise is passed over)
delete_file(file_id, ok_upload, ok_processed) ==
    /\ resp = NoResp
    /\ IF file_id = 0
         THEN /\ resp' = [op |-> "delete_file", code |-> 400]
              /\ UNCHANGED <<s3, events>>
         ELSE LET matched_upload == ListObjectsV2(UPLOAD_BUCKET, <<>>, file_id)
                  matched_processed ==
                      ListObjectsV2(PROCESSED_BUCKET, <<"processed">>, file_id)
                  upload_objects == IF ok_upload THEN matched_upload ELSE {}
                  processed_objects == IF ok_processed THEN matched_processed ELSE {}
                  deleted_files == Deleted("upload", upload_objects)
                                   \cup Deleted("processed", processed_objects)
                  asked == [op |-> "delete_file", file_id |-> file_id,
                            fault |-> ~ok_upload \/ ~ok_processed,
                            matched_upload |-> matched_upload,
                            matched_processed |-> matched_processed]
              IN  /\ s3' = DelAll(DelAll(s3, UPLOAD_BUCKET, upload_objects),
                                  PROCESSED_BUCKET, processed_objects)
                  /\ events' = events
                       \cup { Event("ObjectRemoved:Delete", UPLOAD_BUCKET, key) :
                                key \in upload_objects }
                       \cup { Event("ObjectRemoved:Delete", PROCESSED_BUCKET, key) :
                                key \in processed_objects }
                  /\ resp' = IF deleted_files = {}
                               THEN Merge(asked, [code |-> 404])
                               ELSE Merge(asked, [code |-> 200,
                                                  deleted_files |-> deleted_files])
    /\ UNCHANGED <<proc, handled, itemVars>>

NextApi ==
    \/ NextFiles
    \/ \E ok \in BOOLEAN : list_files(ok)
    \/ \E file_id \in FileIds \cup {0}, ok_upload \in BOOLEAN, ok_processed \in BOOLEAN :
          get_file_info(file_id, ok_upload, ok_processed)
    \/ \E file_id \in FileIds \cup {0}, ok_list \in BOOLEAN, ok_sign \in BOOLEAN :
          get_download_url(file_id, ok_list, ok_sign)
    \/ \E file_id \in FileIds \cup {0}, ok_upload \in BOOLEAN, ok_processed \in BOOLEAN :
          delete_file(file_id, ok_upload, ok_processed)

SpecApi == Init /\ [][NextApi]_vars

\* uploads and processing, with download requests at any moment
NextDownload ==
    \/ NextProcessor
    \/ \E file_id \in FileIds \cup {0}, ok_list \in BOOLEAN, ok_sign \in BOOLEAN :
          get_download_url(file_id, ok_list, ok_sign)
    \/ api_return

SpecDownload == Init /\ [][NextDownload]_vars

-----------------------------------------------------------------------------
(* Claims about the file processor and the status query *)

\* the record process_uploaded_file has just finished with, by returning
Returned == proc.pc = "loop" /\ proc.fin = "returned"

\* the object the finished record was about, as head_object saw it
HeadSeen == proc.src # NoObj

\* the policy in the claims' words: the (lower-cased) extension is in the
\* allow-list and the size is within the maximum
ExtensionAllowed == Lower(proc.key.ext) \in {".jpg", ".png", ".pdf"}
SizeWithinMax == proc.src.size <= 10 * 1024 * 1024

\* C1: in every reachable state, an uploaded object exists in at most one of
\* the three areas incoming, processed and quarantine.
C1_AtMostOneArea ==
    \A fid \in FileIds :
        /\ ~(InIncoming(fid) /\ InProcessed(fid))
        /\ ~(InIncoming(fid) /\ InQuarantine(fid))
        /\ ~(InProcessed(fid) /\ InQuarantine(fid))

\* C2: when process_uploaded_file has finished with an existing object whose
\* extension is not allowed or whose size exceeds the maximum, and no store
\* call failed on the way, the object is under quarantine/{original_key} in the
\* same bucket with quarantine-reason "Validation failed" and its content, it is
\* gone from its original key, and the processed bucket holds nothing of it.
C2_InvalidQuarantined ==
    (Returned /\ HeadSeen /\ ~proc.fault /\ ~(ExtensionAllowed /\ SizeWithinMax)) =>
        LET quarantined == [proc.key EXCEPT !.pre = <<"quarantine">> \o @]
        IN  /\ quarantined \in DOMAIN s3[proc.bucket]
            /\ s3[proc.bucket][quarantined].meta.quarantine_reason = <<"Validation failed">>
            /\ s3[proc.bucket][quarantined].body = proc.src.body
            /\ proc.key \notin DOMAIN s3[proc.bucket]
            /\ \A k \in DOMAIN s3[PROCESSED_BUCKET] : k.fid # proc.key.fid

C2_Witness ==
    /\ Returned /\ HeadSeen /\ ~proc.fault
    /\ ~ExtensionAllowed
    /\ [proc.key EXCEPT !.pre = <<"quarantine">> \o @] \in DOMAIN s3[proc.bucket]

\* C3: when process_uploaded_file has finished with an existing object with an
\* allowed extension, a size within the maximum and a non-image content type,
\* and no store call failed on the way, the object is in the processed bucket
\* under processed/{original_key} with the content of the source, and the
\* source key is gone.
C3_ValidProcessed ==
    (/\ Returned /\ HeadSeen /\ ~proc.fault
     /\ ExtensionAllowed /\ SizeWithinMax
     /\ proc.src.ctype \notin {"image/png", "image/jpeg"}) =>
        LET processed == [proc.key EXCEPT !.pre = <<"processed">> \o @]
        IN  /\ processed \in DOMAIN s3[PROCESSED_BUCKET]
            /\ s3[PROCESSED_BUCKET][processed].body = proc.src.body
            /\ s3[PROCESSED_BUCKET][processed].size = proc.src.size
            /\ proc.key \notin DOMAIN s3[proc.bucket]

C3_Witness ==
    /\ Returned /\ HeadSeen /\ ~proc.fault
    /\ proc.key = [pre |-> <<>>, fid |-> 1, stem |-> "a", ext |-> ".pdf"]
    /\ proc.path = "pass-through"
    /\ [proc.key EXCEPT !.pre = <<"processed">> \o @] \in DOMAIN s3[PROCESSED_BUCKET]

\* C4: processed and quarantined are terminal: an object that has reached the
\* processed area or the quarantine area stays there under every step of the
\* processor, whatever notifications it is handed.
C4_Terminal ==
    [][\A fid \in FileIds :
          /\ InProcessed(fid) => InProcessed(fid)'
          /\ InQuarantine(fid) => InQuarantine(fid)']_vars

\* C5 as stated: a validation failure or a failure of a store call in the
\* image path or the pass-through path never leaves process_uploaded_file.
C5_NeverPropagates ==
    proc.pc = "raised" => ~HeadSeen

\* C5 as amended: such a failure is caught and answered by move_to_quarantine;
\* when process_uploaded_file returns after it, the object is under
\* quarantine/{original_key} with reason "Validation failed" or
\* "Processing error: {message}" and gone from its key; an exception leaves
\* process_uploaded_file only from a store call of the move_to_quarantine
\* made in the except branch.
C5_CaughtAndQuarantined ==
    /\ (Returned /\ HeadSeen /\ (proc.fault \/ ~(ExtensionAllowed /\ SizeWithinMax))) =>
          LET quarantined == [proc.key EXCEPT !.pre = <<"quarantine">> \o @]
          IN  /\ quarantined \in DOMAIN s3[proc.bucket]
              /\ \/ s3[proc.bucket][quarantined].meta.quarantine_reason
                      = <<"Validation failed">>
                 \/ \E msg \in {"NoSuchKey", "ServiceError"} :
                      s3[proc.bucket][quarantined].meta.quarantine_reason
                        = <<"Processing error: ", msg>>
              /\ proc.key \notin DOMAIN s3[proc.bucket]
    /\ proc.pc = "raised" =>
          /\ proc.inExcept
          /\ proc.at \in {"q_copy", "q_del"}
          /\ proc.reason # <<"Validation failed">>

C5_Witness ==
    /\ Returned /\ HeadSeen /\ proc.fault
    /\ proc.path = "pass-through"
    /\ [proc.key EXCEPT !.pre = <<"quarantine">> \o @] \in DOMAIN s3[proc.bucket]

\* C6: a status answer for a file identifier is completed if an object of it is
\* in the processed area, processing if one is only in the incoming area, and
\* not_found otherwise, a quarantined object included.
C6_StatusClassifies ==
    (resp.op = "status" /\ resp.code = 200) =>
        /\ resp.file_id \in FileIds
        /\ resp.status =
             IF InProcessed(resp.file_id) THEN "completed"
             ELSE IF InIncoming(resp.file_id) THEN "processing"
             ELSE "not_found"

C6_Witness ==
    /\ resp.op = "status" /\ resp.code = 200
    /\ resp.status = "not_found"
    /\ InQuarantine(resp.file_id)

-----------------------------------------------------------------------------
(* Claims about the item store *)

\* the attributes of an item as stored, without the display fields
Stored(item) == Restrict(item, DOMAIN item \ {"created_at_display", "updated_at_display"})

\* C7: an update of an item that is in the table, with any non-empty body and
\* no failure of the table, answers with an item whose id and created_at are
\* those the item had before and whose updated_at is greater than before.
C7_UpdatePreserves ==
    (/\ http.op = "update" /\ "old" \in DOMAIN http
     /\ http.stored /\ "created_at" \in DOMAIN http.old
     /\ ~http.fault) =>
        /\ http.code = 200
        /\ http.item.id = http.old.id
        /\ http.item.created_at = http.old.created_at
        /\ http.item.updated_at > http.old.updated_at

\* C8 as stated: get, update and delete on an identifier that is not in the
\* table answer 404, whatever the body.
C8_AbsentIsNotFound ==
    (http.op \in {"get", "update", "delete"} /\ http.absent) => http.code = 404

\* C8 as amended: on an identifier that is not in the table when the handler
\* looks it up, get and delete, and update with a non-empty body, answer 404
\* when the lookup succeeds and 500 when the lookup fails; update with an empty
\* body answers 400 without a lookup.
C8_AbsentAnswer ==
    (http.op \in {"get", "update", "delete"} /\ http.absent) =>
        http.code =
            IF http.op = "update" /\ http.body = [k \in {} |-> 0] THEN 400
            ELSE IF http.fault THEN 500
            ELSE 404

C8_Witness ==
    /\ http.op = "update" /\ http.absent
    /\ http.body # [k \in {} |-> 0]
    /\ http.code = 404
    /\ table # [k \in {} |-> 0]

\* C9: a create with a non-empty body, when the table takes the write, answers
\* 201 with an item whose created_at equals its updated_at and whose id was
\* not issued before; the item is stored as answered and every item that
\* was in the table is still there unchanged.  A create with an empty body
\* answers 400 and leaves the table as it was.
C9_CreateFresh ==
    http.op = "create" =>
        IF http.body = [k \in {} |-> 0]
          THEN http.code = 400 /\ table = http.before
        ELSE IF http.fault
          THEN http.code = 500 /\ table = http.before
        ELSE /\ http.code = 201
             /\ http.item.created_at = http.item.updated_at
             /\ http.item.id \notin http.issued
             /\ http.item.id \notin DOMAIN http.before
             /\ http.item.id \in DOMAIN table
             /\ table[http.item.id] = Stored(http.item)
             /\ \A id \in DOMAIN http.before :
                    id \in DOMAIN table /\ table[id] = http.before[id]

C9_Witness ==
    /\ http.op = "create" /\ http.code = 201
    /\ "id" \in DOMAIN http.body /\ "created_at" \in DOMAIN http.body
    /\ http.before # [k \in {} |-> 0]
    /\ http.item.id \notin DOMAIN http.before

C9_WitnessEmpty ==
    /\ http.op = "create" /\ http.code = 400
    /\ table # [k \in {} |-> 0]

\* C10: a list with a limit that is no number answers 400; a list with a
\* numeric limit n that answers 200 holds at most n records; a list without
\* limit, when the scan succeeds, holds the records of the table.
C10_ListLimit ==
    http.op = "list" =>
        /\ http.limit = "abc" => http.code = 400
        /\ (http.limit \in {"-1", "0", "1", "2"} /\ http.code = 200) =>
              http.count <=
                 (CASE http.limit = "-1" -> -1
                    [] http.limit = "0" -> 0
                    [] http.limit = "1" -> 1
                    [] http.limit = "2" -> 2)
        /\ (http.limit = "none" /\ ~http.fault) =>
              /\ http.code = 200
              /\ http.count = Cardinality(DOMAIN table)

-----------------------------------------------------------------------------
(* Claims about the upload API *)

\* the extension of a file name in the claims' words: the text from the last
\* dot of the name's last path component on, when something other than dots
\* precedes that dot in the component
NameExtension(filename) ==
    LET comps == { i \in 1..Len(filename) : filename[i] = "/" }
        start == IF comps = {} THEN 1
                 ELSE 1 + CHOOSE i \in comps : \A j \in comps : j <= i
        dots == { i \in start..Len(filename) :
                    filename[i] \in {".", ".jpg", ".PNG", ".exe"} }
        last == IF dots = {} THEN 0 ELSE CHOOSE i \in dots : \A j \in dots : j <= i
    IN  IF last = 0 \/ \A i \in start..(last - 1) : filename[i] = "." THEN <<>>
        ELSE SubSeq(filename, last, Len(filename))

\* the policy in the claims' words
PolicyAccepts(filename, size) ==
    /\ NameExtension(filename) \in {<<".jpg">>, <<".PNG">>}
    /\ size <= 10 * 1024 * 1024

\* C11: when signing the URL does not fail, request_upload answers 200 exactly
\* for the requests whose file name has an allowed extension (in any case) and
\* whose declared size, 0 when missing, is at most 10 * 1024 * 1024, and 400
\* for all others; an accepted answer carries a file_id no object or
\* notification has, the key uploads/{file_id}/{filename} and expiry 900.
C11_UploadAccepted ==
    (resp.op = "upload_url" /\ resp.code # 500) =>
        /\ resp.code = IF PolicyAccepts(resp.filename, resp.file_size) THEN 200 ELSE 400
        /\ resp.code = 200 =>
              /\ resp.expires_in = 900
              /\ resp.file_id \in 1..MaxFiles
              /\ \A e \in events : e.key.fid # resp.file_id
              /\ \A b \in DOMAIN s3 : \A k \in DOMAIN s3[b] : k.fid # resp.file_id
              /\ resp.file_key = <<"uploads", "/", ToString(resp.file_id), "/">>
                                    \o resp.filename

C11_Witness ==
    /\ resp.op = "upload_url" /\ resp.code = 200
    /\ resp.filename = <<"a", ".PNG">>
    /\ resp.file_size = 10 * 1024 * 1024

C11_WitnessRejected ==
    /\ resp.op = "upload_url" /\ resp.code = 400
    /\ resp.filename = <<"a", ".jpg">>
    /\ resp.file_size = 10 * 1024 * 1024 + 1

\* the content types head_object reports
ContentTypes == {"", "application/pdf", "image/png", "image/jpeg", "application/octet-stream"}

\* C15: for every file name and declared size a request_upload call is made
\* with, every file identifier and every content type, validate_file on the
\* key uploads/{file_id}/{filename} with that size gives the verdict
\* validate_upload_request gives on the file name and the size.
C15_SamePolicy ==
    resp.op = "upload_url" =>
        \A file_id \in FileIds, content_type \in ContentTypes :
            validate_file(ObjectKey(file_id, resp.filename), resp.file_size, content_type)
              = validate_upload_request(resp.filename, resp.file_size)

C15_Witness ==
    /\ resp.op = "upload_url" /\ resp.code = 400
    /\ resp.filename = <<"/", ".jpg">>
    /\ resp.file_size = 0
    /\ ~validate_file(ObjectKey(1, resp.filename), resp.file_size, "image/jpeg")

C15_WitnessAccepted ==
    /\ resp.op = "upload_url" /\ resp.code = 200
    /\ resp.filename = <<"a", ".PNG">>
    /\ resp.file_size = 0
    /\ validate_file(ObjectKey(1, resp.filename), resp.file_size, "image/png")

\* C15, the consequence for the processor: an object under quarantine/ with
\* reason "Validation failed" is one whose file name and size
\* validate_upload_request refuses.
C15_AcceptedNotRefused ==
    \A key \in DOMAIN s3[UPLOAD_BUCKET] :
        (/\ key.pre = <<"quarantine">>
         /\ s3[UPLOAD_BUCKET][key].meta.quarantine_reason = <<"Validation failed">>) =>
            ~validate_upload_request(<<key.stem, key.ext>>, s3[UPLOAD_BUCKET][key].size)

\* the objects of a file identifier in the incoming area and in the processed
\* area, as delete_file names them
InAreas(file_id) ==
    { <<"upload", key>> :
        key \in { k \in DOMAIN s3[UPLOAD_BUCKET] : k.pre = <<>> /\ k.fid = file_id } }
    \cup
    { <<"processed", key>> :
        key \in { k \in DOMAIN s3[PROCESSED_BUCKET] :
                    k.pre = <<"processed">> /\ k.fid = file_id } }

\* C12: delete_file answers 404 only for an identifier no object of the
\* incoming or processed area matched; otherwise it answers 200, its
\* deleted_files are the matched objects of the areas that held one, and no
\* object of the identifier remains in the incoming or processed area.
C12_DeleteBothAreas ==
    (resp.op = "delete_file" /\ resp.code # 400) =>
        LET matched == { <<"upload", key>> : key \in resp.matched_upload }
                       \cup { <<"processed", key>> : key \in resp.matched_processed }
        IN  /\ resp.code = IF matched = {} THEN 404 ELSE 200
            /\ resp.code = 200 =>
                  /\ resp.deleted_files = matched
                  /\ InAreas(resp.file_id) = {}

\* C13: get_download_url answers 200 only for an identifier that has an object
\* in the processed area at that moment, with that object's key and expiry
\* 3600; when the listing succeeds, an identifier without an object in the
\* processed area (its object only in the incoming area, only in quarantine,
\* or nowhere) is answered 404.
C13_DownloadOnlyProcessed ==
    (resp.op = "download_url" /\ resp.code # 400) =>
        LET processed == { k \in DOMAIN s3[PROCESSED_BUCKET] :
                             k.pre = <<"processed">> /\ k.fid = resp.file_id }
        IN  /\ resp.code = 200 =>
                  /\ processed # {}
                  /\ resp.file_key \in processed
                  /\ resp.expires_in = 3600
            /\ (processed = {} /\ ~resp.fault) => resp.code = 404

C13_Witness ==
    /\ resp.op = "download_url" /\ resp.code = 404 /\ ~resp.fault
    /\ \E k \in DOMAIN s3[UPLOAD_BUCKET] :
          k.pre = <<"quarantine">> /\ k.fid = resp.file_id

C13_WitnessIncoming ==
    /\ resp.op = "download_url" /\ resp.code = 404 /\ ~resp.fault
    /\ \E k \in DOMAIN s3[UPLOAD_BUCKET] : k.pre = <<>> /\ k.fid = resp.file_id

C13_WitnessIssued ==
    /\ resp.op = "download_url" /\ resp.code = 200
    /\ resp.file_key.pre = <<"processed">>

\* C14: an answer of the upload API to a request one of whose store calls
\* raised is 500, never 404 or 200.
C14_StoreFailureIsInternal ==
    (/\ resp.op \in {"list_files", "file_info", "download_url", "delete_file"}
     /\ resp.code # 400
     /\ resp.fault) => resp.code = 500

\* ---------------------------------------------------------------------------
\* Claims about concurrent requests on one item
\* ---------------------------------------------------------------------------

\* C16: under any interleaving of update and delete requests for the same
\* identifier, update never inserts a record: an identifier absent from the
\* table becomes present only through create_item, and then with the id and
\* the created_at of its creation; a record that stays in the table keeps the
\* id and the created_at it was created with.
C16_UpdateNeverInserts ==
    [][\A id \in ItemIds :
          /\ (id \notin DOMAIN table /\ id \in DOMAIN table')
               => /\ http'.op = "create"
                  /\ "created_at" \in DOMAIN table'[id]
                  /\ table'[id].id = id
          /\ (id \in DOMAIN table /\ id \in DOMAIN table')
               => /\ "created_at" \in DOMAIN table[id]
                  /\ "created_at" \in DOMAIN table'[id]
                  /\ table'[id].id = table[id].id
                  /\ table'[id].created_at = table[id].created_at]_vars

\* ---------------------------------------------------------------------------
\* Claims about redelivered events
\* ---------------------------------------------------------------------------

\* an earlier handling has moved the object of the record in hand: its key is
\* gone from its bucket and a copy is in the processed area or in quarantine
AlreadyMoved ==
    /\ proc.key # NoKey
    /\ ~Has(proc.bucket, proc.key)
    /\ \/ Has(PROCESSED_BUCKET, ProcessedKey(proc.key))
       \/ Has(proc.bucket, QuarantineKey(proc.key))

\* the processor is handling a record: between process_s3_event's dispatch and
\* the return or the raise of process_uploaded_file
Handling == proc.pc \notin {"idle", "loop"}

\* C17: redelivery of a write event is harmless to stored data: every step the
\* processor takes while it handles an ObjectCreated record whose object an
\* earlier handling already moved to the processed area or to quarantine leaves
\* the contents and metadata of the incoming, processed and quarantine areas
\* unchanged.
C17_RedeliveryHarmless ==
    [][(Handling /\ AlreadyMoved /\ proc' # proc) => s3' = s3]_vars

\* a redelivered record of an object that was processed has gone through
\* head_object and the except branch, and the handler is about to raise
C17_Witness ==
    /\ proc.pc = "raised"
    /\ ~HeadSeen
    /\ ~Has(proc.bucket, proc.key)
    /\ Has(PROCESSED_BUCKET, ProcessedKey(proc.key))

\* the same for an object that was quarantined
C17_WitnessQuarantined ==
    /\ proc.pc = "raised"
    /\ ~HeadSeen
    /\ ~Has(proc.bucket, proc.key)
    /\ Has(proc.bucket, QuarantineKey(proc.key))

============================================================================
